---- MODULE Spec2Model ----
(***************************************************************************)
(* Chunked ingest and reassembly of one recording (chunking/views.py,      *)
(* upload_chunk; chunking/s3_handler_hybrid.py).  One conversation id is   *)
(* modelled; the database row, the AudioChunk rows, the S3 bucket and the  *)
(* multipart uploads are the state.  Spec runs whole requests one after    *)
(* another; SpecConc interleaves the database / S3 steps of two requests.  *)
(* SpecSizes and SpecLarge vary the chunk sizes; SpecJobs adds the         *)
(* finalize and request-upload endpoints and the final transcription       *)
(* threads; SpecConcFinalize calls the finalize endpoint between the       *)
(* steps of the workers.  SpecReassembly lets the storage fail in the     *)
(* reassembly of the final object; SpecBatch adds the preliminary          *)
(* transcription threads (chunking/transcription.py); SpecOutage lets the  *)
(* chunk upload fail more than once; SpecRetention adds the save endpoint  *)
(* and the cleanup command; SpecTimes varies the start times and durations *)
(* the client sends.                                                       *)
(***************************************************************************)
EXTENDS Integers, Sequences, FiniteSets, TLC

\* ---------------------------------------------------------------- bounds
MaxChunkNumber == 2
MaxCalls == 3
MaxFaults == 1          \* requests of a behaviour that meet a storage failure
MaxSizedCalls == 4
MaxConcCalls == 3
MaxLargeCalls == 2
MaxJobCalls == 3
MaxFinalizeCalls == 3
MaxReassemblyCalls == 3
MaxBatchChunkNumber == 4
MaxBatchCalls == 5
MaxBatchThreads == 2
MaxOutageCalls == 3
MaxOutageFaults == 2
MaxTimedCalls == 3

\* ------------------------------------------------------ program constants
SIZE_THRESHOLD == 10 * 1024 * 1024
MIN_PART_SIZE == 5 * 1024 * 1024
ESTIMATED_CHUNK_BYTES == 900000
CHUNK_SECONDS == 30
PRELIMINARY_TRANSCRIPTION_BATCH_SIZE == 4

\* ------------------------------------------------------------ input sets
Users == {"alice", "bob"}
ChunkNumbers == 0..MaxChunkNumber
BatchChunkNumbers == 0..MaxBatchChunkNumber
Sizes == {900000, 6291456, 9585760}
SmallSizes == {900000}
LargeSizes == Sizes \cup {SIZE_THRESHOLD}
ReassemblySizes == {900000, 9585760}
Durations == {30}
StartTimes == {0}
ClientStartTimes == {0, 45}
ClientDurations == {12, 30}
FailPoints == {"none", "create_multipart_upload", "put_object", "upload_part_copy",
               "reassembly_early", "reassembly_late", "reassembly_connection"}
Procs == {1, 2}

\* ------------------------------------------------------------ S3 keys
NoKey == <<"", "", 0>>
\* chunks/{user}/{conversation}/chunk_{n}.flac
ChunkKey(username, n) == <<"chunks", username, n>>
\* conversations/{user}/{conversation}/complete.flac
CompleteKey(username) == <<"conversations", username, 0>>
\* final/{user}/{conversation}/complete.flac
PresignedKey(username) == <<"final", username, 0>>

\* the bytes of one delivered chunk: which chunk it is and how long
Blob(n, size) == [chunk |-> n, size |-> size]

RECURSIVE ContentLength(_)
ContentLength(content) ==
    IF content = <<>> THEN 0
    ELSE Head(content).size + ContentLength(Tail(content))

\* ------------------------------------------------------------ database rows
NoConversation ==
    [exists |-> FALSE,
     recorded_by |-> "",
     total_duration_seconds |-> 0,
     chunk_count |-> 0,
     received_chunks |-> <<>>,
     final_audio_url |-> NoKey,
     multipart_upload_id |-> 0,
     multipart_s3_key |-> NoKey,
     multipart_parts |-> <<>>,
     is_chunks_complete |-> FALSE,
     is_final_uploaded |-> FALSE,
     transcription_error |-> FALSE,
     save_permanently |-> FALSE,
     scheduled_deletion_date |-> FALSE]

NoResponse == [status |-> 0, error |-> "", message |-> "", total_received |-> -1, is_complete |-> FALSE]

\* the local variables of one upload_chunk request
IdleCall ==
    [pc |-> "idle",
     user |-> "",
     chunk_number |-> 0,
     chunk_start_time |-> 0,
     chunk_duration |-> 0,
     is_final_chunk |-> FALSE,
     chunk_data |-> <<>>,
     fail |-> "none",
     abort_fails |-> FALSE,
     conversation |-> NoConversation,
     upload_result |-> [success |-> FALSE, part_number |-> 0, part_etag |-> <<>>, chunk_s3_url |-> NoKey],
     chunk_s3_urls |-> <<>>,
     total_bytes |-> 0,
     strategy |-> "",
     parts |-> <<>>,
     s3calls |-> <<>>,
     response |-> NoResponse]

VARIABLES conv, chunks, objects, uploads, jobs, threads, calls, faults, last, procs

vars == <<conv, chunks, objects, uploads, jobs, threads, calls, faults, last, procs>>

\* ------------------------------------------------------------ helpers
Range(s) == {s[i] : i \in 1..Len(s)}

\* list.sort()
Sorted(s) == SortSeq(s, LAMBDA a, b: a < b)

RECURSIVE OrderByChunkNumber_Descending(_)
\* OrderByChunkNumber with order_by('-chunk_number')
OrderByChunkNumber_Descending(cs) ==
    IF cs = {} THEN <<>>
    ELSE LET first == CHOOSE c \in cs : \A d \in cs : c.chunk_number >= d.chunk_number
         IN  <<first>> \o OrderByChunkNumber_Descending(cs \ {first})

\* AudioChunk.objects.filter(conversation=...).order_by('chunk_number')
RECURSIVE OrderByChunkNumber(_)
OrderByChunkNumber(cs) ==
    IF cs = {} THEN <<>>
    ELSE LET first == CHOOSE c \in cs : \A d \in cs : c.chunk_number <= d.chunk_number
         IN  <<first>> \o OrderByChunkNumber(cs \ {first})

UploadIsOpen(ups, id) == id \in 1..Len(ups) /\ ups[id].status = "open"

\* one request in flight together with the world it acts on
World(l) == [conv |-> conv, chunks |-> chunks, objects |-> objects,
             uploads |-> uploads, jobs |-> jobs, l |-> l]

Respond(st, r) == [st EXCEPT !.l.response = r, !.l.pc = "done"]

S3Call(st, op, key) == [st EXCEPT !.l.s3calls = Append(@, [op |-> op, key |-> key])]

\* models.Model.save(): every field of the in-memory object is written
Save(st) == [st EXCEPT !.conv = st.l.conversation]

\* ------------------------------------------------------------ upload_chunk
\* GetOrCreate without chunk_start_time = expected_start
GetOrCreate_KeepsClientStart(st) ==
    LET l == st.l
        row == IF st.conv.exists THEN st.conv
               ELSE [NoConversation EXCEPT !.exists = TRUE, !.recorded_by = l.user]
    IN  [st EXCEPT !.conv = row,
                   !.l.conversation = row,
                   !.l.pc = IF l.chunk_number = 0 THEN "start_multipart" ELSE "check_existing"]

\* lines 1006-1024: start-time check, get_or_create
GetOrCreate(st) ==
    LET l == st.l
        row == IF st.conv.exists THEN st.conv
               ELSE [NoConversation EXCEPT !.exists = TRUE, !.recorded_by = l.user]
        expected_start == l.chunk_number * CHUNK_SECONDS
    IN  [st EXCEPT !.conv = row,
                   !.l.conversation = row,
                   !.l.chunk_start_time = expected_start,
                   !.l.pc = IF l.chunk_number = 0 THEN "start_multipart" ELSE "check_existing"]

\* StartMultipart recording an upload id before the answer of a failed start
StartMultipart_RecordsOnFailure(st) ==
    LET l == st.l
        key == CompleteKey(l.user)
        called == S3Call(st, "create_multipart_upload", key)
        upload_id == Len(st.uploads) + 1
    IN  IF l.fail = "create_multipart_upload"
        THEN Respond(Save([called EXCEPT !.l.conversation.multipart_upload_id = upload_id,
                                         !.l.conversation.multipart_s3_key = key]),
                     [NoResponse EXCEPT !.status = 500,
                                        !.error = "Failed to start multipart upload"])
        ELSE [called EXCEPT
                !.uploads = Append(@, [key |-> key, status |-> "open", parts |-> <<>>,
                                       manifest |-> <<>>,
                                       opened_by |-> "start_multipart_upload"]),
                !.l.conversation.multipart_upload_id = upload_id,
                !.l.conversation.multipart_s3_key = key,
                !.l.conversation.final_audio_url = key,
                !.l.conversation.multipart_parts = <<>>,
                !.l.pc = "save_multipart"]

\* lines 1026-1036 and start_multipart_upload: create_multipart_upload
StartMultipart(st) ==
    LET l == st.l
        key == CompleteKey(l.user)
        called == S3Call(st, "create_multipart_upload", key)
        upload_id == Len(st.uploads) + 1
    IN  IF l.fail = "create_multipart_upload"
        THEN Respond(called, [NoResponse EXCEPT !.status = 500,
                                                !.error = "Failed to start multipart upload"])
        ELSE [called EXCEPT
                !.uploads = Append(@, [key |-> key, status |-> "open", parts |-> <<>>,
                                       manifest |-> <<>>,
                                       opened_by |-> "start_multipart_upload"]),
                !.l.conversation.multipart_upload_id = upload_id,
                !.l.conversation.multipart_s3_key = key,
                !.l.conversation.final_audio_url = key,
                !.l.conversation.multipart_parts = <<>>,
                !.l.pc = "save_multipart"]

\* lines 1038-1044: conversation.save()
SaveMultipart(st) == [Save(st) EXCEPT !.l.pc = "check_existing"]

\* CheckExisting without the test for a multipart upload id
CheckExisting_NoMultipartTest(st) ==
    LET l == st.l
        existing_chunk == \E c \in st.chunks : c.chunk_number = l.chunk_number
    IN  IF existing_chunk
        THEN Respond(st, [NoResponse EXCEPT !.status = 200,
                                            !.message = "Already received",
                                            !.total_received = Len(l.conversation.received_chunks),
                                            !.is_complete = l.conversation.is_chunks_complete])
        ELSE [st EXCEPT !.l.pc = "upload_chunk_hybrid"]

\* lines 1046-1066: idempotency check, multipart id required
CheckExisting(st) ==
    LET l == st.l
        existing_chunk == \E c \in st.chunks : c.chunk_number = l.chunk_number
    IN  IF existing_chunk
        THEN Respond(st, [NoResponse EXCEPT !.status = 200,
                                            !.message = "Already received",
                                            !.total_received = Len(l.conversation.received_chunks),
                                            !.is_complete = l.conversation.is_chunks_complete])
        ELSE IF l.conversation.multipart_upload_id = 0
        THEN Respond(st, [NoResponse EXCEPT !.status = 400,
                                            !.error = "No multipart upload - chunk 0 must be sent first"])
        ELSE [st EXCEPT !.l.pc = "upload_chunk_hybrid"]

\* upload_chunk_hybrid: put_object, then upload_part_copy as part n+1
UploadChunkHybrid(st) ==
    LET l == st.l
        chunk_s3_key == ChunkKey(l.user, l.chunk_number)
        part_number == l.chunk_number + 1
        upload_id == l.conversation.multipart_upload_id
        s3_key == l.conversation.multipart_s3_key
        failed(s) == [s EXCEPT !.l.upload_result.success = FALSE, !.l.pc = "abort_failed_upload"]
        succeeded(s, etag) == [s EXCEPT !.l.upload_result = [success |-> TRUE,
                                                              part_number |-> part_number,
                                                              part_etag |-> etag,
                                                              chunk_s3_url |-> chunk_s3_key],
                                        !.l.pc = "save_parts"]
        put == S3Call(st, "put_object", chunk_s3_key)
    IN  IF l.fail = "put_object"
        THEN failed(put)
        ELSE LET stored == [put EXCEPT !.objects = (chunk_s3_key :> l.chunk_data) @@ @]
                 copy == S3Call(stored, "upload_part_copy", s3_key)
             IN  IF upload_id = 0 \/ s3_key = NoKey
                 THEN succeeded(stored, <<>>)
                 ELSE IF l.fail = "upload_part_copy" \/ ~UploadIsOpen(st.uploads, upload_id)
                 THEN failed(copy)
                 ELSE succeeded([copy EXCEPT !.uploads[upload_id].parts = (part_number :> l.chunk_data) @@ @],
                                l.chunk_data)

\* abort_multipart_upload(upload_id, s3_key): ClientError is swallowed
AbortMultipartUpload(st, upload_id, s3_key) ==
    LET called == S3Call(st, "abort_multipart_upload", s3_key)
    IN  IF st.l.abort_fails \/ ~UploadIsOpen(st.uploads, upload_id)
        THEN called
        ELSE [called EXCEPT !.uploads[upload_id].status = "aborted",
                            !.uploads[upload_id].parts = <<>>]

\* lines 1077-1086: the upload failed
AbortFailedUpload(st) ==
    Respond(AbortMultipartUpload(st, st.l.conversation.multipart_upload_id,
                                 st.l.conversation.multipart_s3_key),
            [NoResponse EXCEPT !.status = 500, !.error = "Failed to upload chunk"])

\* lines 1088-1099: append the part, conversation.save()
SaveParts(st) ==
    LET l == st.l
        parts == Append(l.conversation.multipart_parts,
                        [part_number |-> l.upload_result.part_number,
                         etag |-> l.upload_result.part_etag])
    IN  [Save([st EXCEPT !.l.conversation.multipart_parts = parts]) EXCEPT !.l.pc = "create_chunk"]

\* lines 1103-1113: AudioChunk.objects.create under unique_together
CreateChunk(st) ==
    LET l == st.l
    IN  IF \E c \in st.chunks : c.chunk_number = l.chunk_number
        THEN Respond(st, [NoResponse EXCEPT !.status = 500, !.error = "IntegrityError"])
        ELSE [st EXCEPT
                !.chunks = @ \cup {[chunk_number |-> l.chunk_number,
                                    start_time_seconds |-> l.chunk_start_time,
                                    duration_seconds |-> l.chunk_duration,
                                    s3_chunk_url |-> l.upload_result.chunk_s3_url,
                                    transcript_text |-> ""]},
                !.l.pc = "save_received"]

\* lines 1115-1124: received_chunks, chunk_count, total_duration_seconds, save()
SaveReceived(st) ==
    LET l == st.l
        old == l.conversation.received_chunks
        received_chunks == IF l.chunk_number \in Range(old) THEN old
                           ELSE Sorted(Append(old, l.chunk_number))
    IN  [Save([st EXCEPT
                 !.l.conversation.received_chunks = received_chunks,
                 !.l.conversation.chunk_count = Len(received_chunks),
                 !.l.conversation.total_duration_seconds = l.chunk_start_time + l.chunk_duration])
         EXCEPT !.l.pc = IF l.is_final_chunk THEN "select_strategy" ELSE "dispatch_preliminary"]

\* SelectStrategy without the abort of the optimistic upload
SelectStrategy_NoAbort(st) ==
    LET l == st.l
        chunks_in_order == OrderByChunkNumber(st.chunks)
        chunk_s3_urls == [i \in 1..Len(chunks_in_order) |-> chunks_in_order[i].s3_chunk_url]
        current == {i \in 1..Len(chunks_in_order) : chunks_in_order[i].chunk_number = l.chunk_number}
        total_bytes == Cardinality(current) * ContentLength(l.chunk_data)
                       + (Len(chunks_in_order) - Cardinality(current)) * ESTIMATED_CHUNK_BYTES
        aborted == st
    IN  [aborted EXCEPT !.l.chunk_s3_urls = chunk_s3_urls,
                        !.l.total_bytes = total_bytes,
                        !.l.strategy = IF total_bytes < SIZE_THRESHOLD THEN "concatenate" ELSE "multipart",
                        !.l.pc = "reassemble"]

\* lines 1128-1162: chunks in order, estimated total, abort the optimistic upload
SelectStrategy(st) ==
    LET l == st.l
        chunks_in_order == OrderByChunkNumber(st.chunks)
        chunk_s3_urls == [i \in 1..Len(chunks_in_order) |-> chunks_in_order[i].s3_chunk_url]
        current == {i \in 1..Len(chunks_in_order) : chunks_in_order[i].chunk_number = l.chunk_number}
        total_bytes == Cardinality(current) * ContentLength(l.chunk_data)
                       + (Len(chunks_in_order) - Cardinality(current)) * ESTIMATED_CHUNK_BYTES
        aborted == IF l.conversation.multipart_upload_id # 0
                   THEN AbortMultipartUpload(st, l.conversation.multipart_upload_id,
                                             l.conversation.multipart_s3_key)
                   ELSE st
    IN  [aborted EXCEPT !.l.chunk_s3_urls = chunk_s3_urls,
                        !.l.total_bytes = total_bytes,
                        !.l.strategy = IF total_bytes < SIZE_THRESHOLD THEN "concatenate" ELSE "multipart",
                        !.l.pc = "reassemble"]

ReassemblyFailed(st) ==
    Respond(st, [NoResponse EXCEPT !.status = 500, !.error = "Failed to create complete file"])

\* an exception that is not a ClientError leaves the handler: Django answers 500
Unhandled(st) ==
    Respond(st, [NoResponse EXCEPT !.status = 500, !.error = "BotoCoreError"])

RECURSIVE GetObjects(_, _, _)
\* one get_object per url, in list order
GetObjects(st, urls, i) ==
    IF i > Len(urls) THEN st
    ELSE GetObjects(S3Call(st, "get_object", urls[i]), urls, i + 1)

RECURSIVE Concatenation(_, _)
Concatenation(objs, urls) ==
    IF urls = <<>> THEN <<>>
    ELSE objs[Head(urls)] \o Concatenation(objs, Tail(urls))

\* concatenate_and_upload_small_conversation
ConcatenateAndUploadSmallConversation(st) ==
    LET l == st.l
        s3_key == CompleteKey(l.user)
        missing == \E i \in 1..Len(l.chunk_s3_urls) : l.chunk_s3_urls[i] \notin DOMAIN st.objects
    IN  IF l.fail = "reassembly_early" \/ missing
        THEN ReassemblyFailed(S3Call(st, "get_object", l.chunk_s3_urls[1]))
        ELSE LET got == GetObjects(st, l.chunk_s3_urls, 1)
                 concatenated_data == Concatenation(st.objects, l.chunk_s3_urls)
                 put == S3Call(got, "put_object", s3_key)
             IN  IF l.fail = "reassembly_late"
                 THEN ReassemblyFailed(put)
                 ELSE IF l.fail = "reassembly_connection"
                 THEN Unhandled(put)
                 ELSE [put EXCEPT !.objects = (s3_key :> concatenated_data) @@ @,
                                  !.l.conversation.final_audio_url = s3_key,
                                  !.l.pc = "save_final"]

RECURSIVE HeadObjects(_, _, _)
HeadObjects(st, urls, i) ==
    IF i > Len(urls) THEN st
    ELSE HeadObjects(S3Call(st, "head_object", urls[i]), urls, i + 1)

BatchSize(batch) == ContentLength([i \in 1..Len(batch) |-> [size |-> batch[i].size]])

RECURSIVE BatchChunks_NoReset(_, _, _, _)
\* BatchChunks without current_batch = [] after a part is made
BatchChunks_NoReset(chunk_info, i, current_batch, parts) ==
    IF i > Len(chunk_info) THEN parts
    ELSE LET batch == Append(current_batch, chunk_info[i])
             current_batch_size == BatchSize(batch)
             is_last_chunk == (i = Len(chunk_info))
             batch_ready == current_batch_size >= MIN_PART_SIZE
         IN  IF batch_ready \/ is_last_chunk
             THEN BatchChunks_NoReset(chunk_info, i + 1, batch, Append(parts, batch))
             ELSE BatchChunks_NoReset(chunk_info, i + 1, batch, parts)

RECURSIVE BatchChunks(_, _, _, _)
\* lines 326-392 of s3_handler_hybrid.py: the batches, in the order the parts are made
BatchChunks(chunk_info, i, current_batch, parts) ==
    IF i > Len(chunk_info) THEN parts
    ELSE LET batch == Append(current_batch, chunk_info[i])
             current_batch_size == BatchSize(batch)
             is_last_chunk == (i = Len(chunk_info))
             batch_ready == current_batch_size >= MIN_PART_SIZE
         IN  IF batch_ready \/ is_last_chunk
             THEN BatchChunks(chunk_info, i + 1, <<>>, Append(parts, batch))
             ELSE BatchChunks(chunk_info, i + 1, batch, parts)

\* parts.append({'PartNumber': part_number, 'ETag': etag}) with the list at the front
AppendPart_Prepend(parts, part_number, etag) ==
    <<[PartNumber |-> part_number, ETag |-> etag]>> \o parts

\* parts.append({'PartNumber': part_number, 'ETag': etag})
AppendPart(parts, part_number, etag) ==
    Append(parts, [PartNumber |-> part_number, ETag |-> etag])

RECURSIVE UploadParts_AlwaysDownload(_, _, _, _, _)
\* UploadParts without the branch for a batch of one chunk
UploadParts_AlwaysDownload(st, upload_id, s3_key, batches, part_number) ==
    IF part_number > Len(batches) THEN st
    ELSE LET batch == batches[part_number]
             keys == [i \in 1..Len(batch) |-> batch[i].key]
             part_data == Concatenation(st.objects, keys)
             sent == S3Call(GetObjects(st, keys, 1), "upload_part", s3_key)
         IN  UploadParts_AlwaysDownload(
                 [sent EXCEPT !.uploads[upload_id].parts = (part_number :> part_data) @@ @,
                              !.l.parts = AppendPart(@, part_number, part_data)],
                 upload_id, s3_key, batches, part_number + 1)

RECURSIVE UploadParts(_, _, _, _, _)
\* one part per batch: upload_part_copy for a single chunk, get_object + upload_part otherwise
UploadParts(st, upload_id, s3_key, batches, part_number) ==
    IF part_number > Len(batches) THEN st
    ELSE LET batch == batches[part_number]
             keys == [i \in 1..Len(batch) |-> batch[i].key]
             part_data == Concatenation(st.objects, keys)
             sent == IF Len(batch) = 1
                     THEN S3Call(st, "upload_part_copy", s3_key)
                     ELSE S3Call(GetObjects(st, keys, 1), "upload_part", s3_key)
         IN  UploadParts([sent EXCEPT !.uploads[upload_id].parts = (part_number :> part_data) @@ @,
                                      !.l.parts = AppendPart(@, part_number, part_data)],
                         upload_id, s3_key, batches, part_number + 1)

\* what S3 accepts in complete_multipart_upload: the listed parts exist with
\* their ETag, in ascending part number, all but the last at least 5 MB
ValidManifest(uploaded_parts, manifest) ==
    /\ manifest # <<>>
    /\ \A i \in 1..Len(manifest) :
          /\ manifest[i].PartNumber \in DOMAIN uploaded_parts
          /\ manifest[i].ETag = uploaded_parts[manifest[i].PartNumber]
    /\ \A i \in 1..(Len(manifest) - 1) :
          /\ manifest[i].PartNumber < manifest[i + 1].PartNumber
          /\ ContentLength(uploaded_parts[manifest[i].PartNumber]) >= MIN_PART_SIZE

\* build_multipart_from_chunks
BuildMultipartFromChunks(st) ==
    LET l == st.l
        s3_key == CompleteKey(l.user)
        missing == \E i \in 1..Len(l.chunk_s3_urls) : l.chunk_s3_urls[i] \notin DOMAIN st.objects
    IN  IF l.fail = "reassembly_early" \/ missing
        THEN ReassemblyFailed(S3Call(st, "head_object", l.chunk_s3_urls[1]))
        ELSE LET chunk_info == [i \in 1..Len(l.chunk_s3_urls) |->
                                   [key |-> l.chunk_s3_urls[i],
                                    size |-> ContentLength(st.objects[l.chunk_s3_urls[i]])]]
                 headed == HeadObjects(st, l.chunk_s3_urls, 1)
                 upload_id == Len(st.uploads) + 1
                 created == [S3Call(headed, "create_multipart_upload", s3_key) EXCEPT
                               !.uploads = Append(@, [key |-> s3_key, status |-> "open", parts |-> <<>>,
                                                      manifest |-> <<>>,
                                                      opened_by |-> "build_multipart_from_chunks"])]
                 batches == BatchChunks(chunk_info, 1, <<>>, <<>>)
                 uploaded == UploadParts(created, upload_id, s3_key, batches, 1)
                 parts == uploaded.uploads[upload_id].parts
                 manifest == uploaded.l.parts
                 complete == [S3Call(uploaded, "complete_multipart_upload", s3_key) EXCEPT
                                !.uploads[upload_id].manifest = manifest]
             IN  IF l.fail = "reassembly_connection"
                 THEN Unhandled(complete)
                 ELSE IF l.fail = "reassembly_late" \/ ~ValidManifest(parts, manifest)
                 THEN ReassemblyFailed(AbortMultipartUpload(complete, upload_id, s3_key))
                 ELSE [complete EXCEPT
                         !.uploads[upload_id].status = "completed",
                         !.objects = (s3_key :> Concatenation(parts, [n \in 1..Len(manifest) |->
                                                                          manifest[n].PartNumber])) @@ @,
                         !.l.conversation.final_audio_url = s3_key,
                         !.l.pc = "save_final"]

\* lines 1164-1201: the strategy chosen from the estimate
Reassemble(st) ==
    IF st.l.total_bytes < SIZE_THRESHOLD
    THEN ConcatenateAndUploadSmallConversation(st)
    ELSE BuildMultipartFromChunks(st)

\* ChunkedConversation.schedule_deletion
ScheduleDeletion(st) ==
    IF ~st.l.conversation.save_permanently
    THEN Save([st EXCEPT !.l.conversation.scheduled_deletion_date = TRUE])
    ELSE st

\* SaveFinal without conversation.is_final_uploaded = True
SaveFinal_ChunksCompleteOnly(st) ==
    LET l == st.l
        flagged == [st EXCEPT !.l.conversation.is_chunks_complete = TRUE]
        saved == Save(ScheduleDeletion(flagged))
    IN  Respond([saved EXCEPT !.jobs = Append(@, [kind |-> "final", chunk_ids |-> <<>>])],
                [NoResponse EXCEPT !.status = 200,
                                   !.message = "Complete",
                                   !.total_received = Len(l.conversation.received_chunks),
                                   !.is_complete = TRUE])

\* lines 1203-1245: flags, retention, save(), final transcription thread, response
SaveFinal(st) ==
    LET l == st.l
        flagged == [st EXCEPT !.l.conversation.is_chunks_complete = TRUE,
                              !.l.conversation.is_final_uploaded = TRUE]
        saved == Save(ScheduleDeletion(flagged))
    IN  Respond([saved EXCEPT !.jobs = Append(@, [kind |-> "final", chunk_ids |-> <<>>])],
                [NoResponse EXCEPT !.status = 200,
                                   !.message = "Complete",
                                   !.total_received = Len(l.conversation.received_chunks),
                                   !.is_complete = TRUE])

\* DispatchPreliminary with AudioChunk.objects.filter(conversation=conversation)
DispatchPreliminary_CountAll(st) ==
    LET l == st.l
        batch_size == PRELIMINARY_TRANSCRIPTION_BATCH_SIZE
        untranscribed == OrderByChunkNumber(st.chunks)
        chunk_ids == [i \in 1..batch_size |-> untranscribed[i].chunk_number]
        dispatched == IF Len(untranscribed) >= batch_size
                      THEN [st EXCEPT !.jobs = Append(@, [kind |-> "preliminary", chunk_ids |-> chunk_ids])]
                      ELSE st
    IN  Respond(dispatched, [NoResponse EXCEPT !.status = 200,
                                               !.message = "Uploaded",
                                               !.total_received = Len(l.conversation.received_chunks),
                                               !.is_complete = FALSE])

\* lines 1247-1277: preliminary transcription every batch_size untranscribed chunks
DispatchPreliminary(st) ==
    LET l == st.l
        batch_size == PRELIMINARY_TRANSCRIPTION_BATCH_SIZE
        untranscribed == OrderByChunkNumber({c \in st.chunks : c.transcript_text = ""})
        chunk_ids == [i \in 1..batch_size |-> untranscribed[i].chunk_number]
        dispatched == IF Len(untranscribed) >= batch_size
                      THEN [st EXCEPT !.jobs = Append(@, [kind |-> "preliminary", chunk_ids |-> chunk_ids])]
                      ELSE st
    IN  Respond(dispatched, [NoResponse EXCEPT !.status = 200,
                                               !.message = "Uploaded",
                                               !.total_received = Len(l.conversation.received_chunks),
                                               !.is_complete = FALSE])

\* the statement of upload_chunk the request is at
Step(st) ==
    CASE st.l.pc = "get_or_create" -> GetOrCreate(st)
      [] st.l.pc = "start_multipart" -> StartMultipart(st)
      [] st.l.pc = "save_multipart" -> SaveMultipart(st)
      [] st.l.pc = "check_existing" -> CheckExisting(st)
      [] st.l.pc = "upload_chunk_hybrid" -> UploadChunkHybrid(st)
      [] st.l.pc = "abort_failed_upload" -> AbortFailedUpload(st)
      [] st.l.pc = "save_parts" -> SaveParts(st)
      [] st.l.pc = "create_chunk" -> CreateChunk(st)
      [] st.l.pc = "save_received" -> SaveReceived(st)
      [] st.l.pc = "select_strategy" -> SelectStrategy(st)
      [] st.l.pc = "reassemble" -> Reassemble(st)
      [] st.l.pc = "save_final" -> SaveFinal(st)
      [] st.l.pc = "dispatch_preliminary" -> DispatchPreliminary(st)

RECURSIVE Run(_)
\* a request from its first statement to its response
Run(st) == IF st.l.pc = "done" THEN st ELSE Run(Step(st))

\* the request as it arrives: headers, body, and what S3 will do to it
Request(user, n, start, duration, final, size, fail, abort_fails) ==
    [IdleCall EXCEPT !.pc = "get_or_create",
                     !.user = user,
                     !.chunk_number = n,
                     !.chunk_start_time = start,
                     !.chunk_duration = duration,
                     !.is_final_chunk = final,
                     !.chunk_data = <<Blob(n, size)>>,
                     !.fail = fail,
                     !.abort_fails = abort_fails]

\* what is kept of a finished request: the request, its S3 calls and its response
Finished(l) ==
    [IdleCall EXCEPT !.pc = "done",
                     !.user = l.user,
                     !.chunk_number = l.chunk_number,
                     !.is_final_chunk = l.is_final_chunk,
                     !.chunk_data = l.chunk_data,
                     !.total_bytes = l.total_bytes,
                     !.strategy = l.strategy,
                     !.s3calls = l.s3calls,
                     !.response = l.response]

\* ------------------------------------------------------------ sequential requests
Init ==
    /\ conv = NoConversation
    /\ chunks = {}
    /\ objects = <<>>
    /\ uploads = <<>>
    /\ jobs = <<>>
    /\ threads = <<>>
    /\ calls = 0
    /\ faults = 0
    /\ last = IdleCall
    /\ procs = [p \in Procs |-> IdleCall]

\* POST /chunking/chunk/ served from request to response
UploadChunk(l) ==
    /\ \E st \in {Run(World(l))} :
           /\ conv' = st.conv
           /\ chunks' = st.chunks
           /\ objects' = st.objects
           /\ uploads' = st.uploads
           /\ jobs' = st.jobs
           /\ last' = Finished(st.l)
    /\ calls' = calls + 1
    /\ faults' = faults + (IF l.fail # "none" \/ l.abort_fails THEN 1 ELSE 0)
    /\ UNCHANGED <<threads, procs>>

\* the S3 calls a request can get to, and whether it can get to an abort
FailPointsOf(n, final) ==
    IF faults >= MaxFaults THEN {"none"} ELSE
    {"none", "put_object", "upload_part_copy"}
        \cup (IF n = 0 THEN {"create_multipart_upload"} ELSE {})
        \cup (IF final THEN {"reassembly_early", "reassembly_late"} ELSE {})

AbortOutcomes(final, fail) ==
    IF faults >= MaxFaults \/ fail = "create_multipart_upload" \/ (fail = "none" /\ ~final) THEN {FALSE} ELSE BOOLEAN

Next ==
    /\ calls < MaxCalls
    /\ \E u \in Users, n \in ChunkNumbers, f \in BOOLEAN :
          \E x \in FailPointsOf(n, f) :
             \E a \in AbortOutcomes(f, x), s \in StartTimes, d \in Durations, z \in SmallSizes :
                UploadChunk(Request(u, n, s, d, f, z, x, a))

Spec == Init /\ [][Next]_vars

\* the owner's requests with every chunk size and a storage that does not fail
NextSizes ==
    /\ calls < MaxSizedCalls
    /\ \E n \in ChunkNumbers, f \in BOOLEAN, z \in Sizes :
          \E s \in StartTimes, d \in Durations :
             UploadChunk(Request("alice", n, s, d, f, z, "none", FALSE))

SpecSizes == Init /\ [][NextSizes]_vars

\* the owner's requests with chunks up to the size of the threshold itself
NextLarge ==
    /\ calls < MaxLargeCalls
    /\ \E n \in ChunkNumbers, f \in BOOLEAN, z \in LargeSizes :
          \E s \in StartTimes, d \in Durations :
             UploadChunk(Request("alice", n, s, d, f, z, "none", FALSE))

SpecLarge == Init /\ [][NextLarge]_vars

\* the failures of the storage a reassembly can meet
ReassemblyFailPointsOf(final) ==
    IF faults >= MaxFaults \/ ~final THEN {"none"}
    ELSE {"none", "reassembly_early", "reassembly_late", "reassembly_connection"}

\* the owner's requests with small and large chunks and a storage that fails in the reassembly
NextReassembly ==
    /\ calls < MaxReassemblyCalls
    /\ \E n \in ChunkNumbers, f \in BOOLEAN, z \in ReassemblySizes :
          \E x \in ReassemblyFailPointsOf(f) :
             \E a \in AbortOutcomes(f, x), s \in StartTimes, d \in Durations :
                UploadChunk(Request("alice", n, s, d, f, z, x, a))

SpecReassembly == Init /\ [][NextReassembly]_vars

\* the owner's requests to a storage that fails in the start of the multipart
\* upload or in the chunk upload, the abort after it included, more than once
NextOutage ==
    /\ calls < MaxOutageCalls
    /\ \E n \in ChunkNumbers, f \in BOOLEAN :
          \E x \in (IF faults >= MaxOutageFaults THEN {"none"}
                    ELSE {"none", "put_object", "upload_part_copy"}
                             \cup (IF n = 0 THEN {"create_multipart_upload"} ELSE {})) :
             \E a \in (IF x \in {"none", "create_multipart_upload"} THEN {FALSE} ELSE BOOLEAN), z \in SmallSizes,
                s \in StartTimes, d \in Durations :
                UploadChunk(Request("alice", n, s, d, f, z, x, a))

SpecOutage == Init /\ [][NextOutage]_vars

\* the owner's requests with start times and durations the client made up
NextTimes ==
    /\ calls < MaxTimedCalls
    /\ \E n \in ChunkNumbers, f \in BOOLEAN, z \in SmallSizes :
          \E s \in ClientStartTimes, d \in ClientDurations :
             UploadChunk(Request("alice", n, s, d, f, z, "none", FALSE))

SpecTimes == Init /\ [][NextTimes]_vars

\* ------------------------------------------------------------ the other endpoints
FinalJobs(js) == {i \in 1..Len(js) : js[i].kind = "final"}

\* what is kept of a request to another endpoint: the user, the S3 calls, the response
Answered(user, s3calls, status, error, message) ==
    [IdleCall EXCEPT !.pc = "done",
                     !.user = user,
                     !.s3calls = s3calls,
                     !.response = [NoResponse EXCEPT !.status = status,
                                                     !.error = error,
                                                     !.message = message]]

\* POST /chunking/<id>/finalize/
FinalizeConversation(user) ==
    LET head == <<[op |-> "head_object", key |-> conv.final_audio_url]>>
    IN  /\ calls' = calls + 1
        /\ UNCHANGED <<chunks, objects, uploads, threads, faults, procs>>
        /\ IF ~conv.exists \/ conv.recorded_by # user
           THEN /\ last' = Answered(user, <<>>, 404, "Conversation not found", "")
                /\ UNCHANGED <<conv, jobs>>
           ELSE IF conv.final_audio_url = NoKey
           THEN /\ last' = Answered(user, <<>>, 400, "No final audio URL - request upload URL first", "")
                /\ UNCHANGED <<conv, jobs>>
           ELSE IF conv.final_audio_url \notin DOMAIN objects
           THEN /\ last' = Answered(user, head, 404, "Final audio file not found in S3 - upload may still be in progress", "")
                /\ UNCHANGED <<conv, jobs>>
           ELSE /\ conv' = [conv EXCEPT !.is_final_uploaded = TRUE]
                /\ jobs' = Append(jobs, [kind |-> "final", chunk_ids |-> <<>>])
                /\ last' = Answered(user, head, 200, "", "Final upload verified, transcription started")

\* POST /chunking/<id>/request-upload/
RequestUploadUrl(user) ==
    /\ calls' = calls + 1
    /\ UNCHANGED <<chunks, objects, uploads, jobs, threads, faults, procs>>
    /\ IF ~conv.exists \/ conv.recorded_by # user
       THEN /\ last' = Answered(user, <<>>, 404, "Conversation not found", "")
            /\ UNCHANGED conv
       ELSE IF ~conv.is_chunks_complete
       THEN /\ last' = Answered(user, <<>>, 400, "Chunks not complete yet", "")
            /\ UNCHANGED conv
       ELSE IF conv.is_final_uploaded
       THEN /\ last' = Answered(user, <<>>, 400, "Final file already uploaded", "")
            /\ UNCHANGED conv
       ELSE /\ conv' = [conv EXCEPT !.final_audio_url = PresignedKey(user)]
            /\ last' = Answered(user, <<>>, 200, "", "")

\* the transcription thread of a final job starts: transcribe_final_audio loads the row
TranscribeBegin ==
    /\ Len(threads) < Cardinality(FinalJobs(jobs))
    /\ IF conv.final_audio_url = NoKey
       THEN /\ conv' = [conv EXCEPT !.transcription_error = TRUE]
            /\ threads' = Append(threads, [pc |-> "failed", conversation |-> conv'])
       ELSE /\ threads' = Append(threads, [pc |-> "transcribing", conversation |-> conv])
            /\ UNCHANGED conv
    /\ UNCHANGED <<chunks, objects, uploads, jobs, calls, faults, last, procs>>

TranscriptionOutcomes == {"completed", "error", "exception"}

\* the transcription comes back: the object loaded at the start is saved
TranscribeEnd(t, outcome) ==
    /\ threads[t].pc = "transcribing"
    /\ conv' = CASE outcome = "completed" -> [threads[t].conversation EXCEPT !.transcription_error = FALSE]
                 [] outcome = "error" -> [threads[t].conversation EXCEPT !.transcription_error = TRUE]
                 [] outcome = "exception" -> [conv EXCEPT !.transcription_error = TRUE]
    /\ threads' = [threads EXCEPT ![t].pc = IF outcome = "completed" THEN "completed" ELSE "failed",
                                  ![t].conversation = conv']
    /\ UNCHANGED <<chunks, objects, uploads, jobs, calls, faults, last, procs>>

\* the owner's requests to the three endpoints, and the transcription threads
NextJobs ==
    \/ /\ calls < MaxJobCalls
       /\ \/ \E n \in ChunkNumbers, f \in BOOLEAN, z \in SmallSizes, s \in StartTimes, d \in Durations :
                UploadChunk(Request("alice", n, s, d, f, z, "none", FALSE))
          \/ FinalizeConversation("alice")
          \/ RequestUploadUrl("alice")
    \/ TranscribeBegin
    \/ \E t \in 1..Len(threads), o \in TranscriptionOutcomes : TranscribeEnd(t, o)

SpecJobs == Init /\ [][NextJobs]_vars

\* ------------------------------------------------------------ preliminary transcription
PreliminaryJobs(js) == {i \in 1..Len(js) : js[i].kind = "preliminary"}

\* transcribe_chunks_preliminary, lines 62-66: the thread of a job loads the
\* conversation and the chunk rows of its chunk_ids
PreliminaryBegin(j) ==
    /\ j \in PreliminaryJobs(jobs)
    /\ Len(threads) < MaxBatchThreads
    /\ \A t \in 1..Len(threads) : threads[t].pc # "transcribing"
    /\ \A t \in 1..Len(threads) : threads[t].job # j
    /\ threads' = Append(threads,
                         [pc |-> "transcribing", job |-> j, conversation |-> conv,
                          chunks |-> OrderByChunkNumber({c \in chunks :
                                                            c.chunk_number \in Range(jobs[j].chunk_ids)})])
    /\ UNCHANGED <<conv, chunks, objects, uploads, jobs, calls, faults, last, procs>>

\* lines 76-119: the next chunk of the loop; a chunk that had a transcript is
\* skipped, an error leaves the chunk as it is, an exception ends the job
PreliminaryChunk(t, outcome) ==
    /\ threads[t].pc = "transcribing"
    /\ threads[t].chunks # <<>>
    /\ LET chunk == Head(threads[t].chunks)
       IN  IF chunk.transcript_text # ""
           THEN /\ outcome = "completed"
                /\ threads' = [threads EXCEPT ![t].chunks = Tail(@)]
                /\ UNCHANGED chunks
           ELSE CASE outcome = "completed" ->
                       /\ chunks' = {c \in chunks : c.chunk_number # chunk.chunk_number}
                                        \cup {[chunk EXCEPT !.transcript_text = "text"]}
                       /\ threads' = [threads EXCEPT ![t].chunks = Tail(@)]
                  [] outcome = "error" ->
                       /\ threads' = [threads EXCEPT ![t].chunks = Tail(@)]
                       /\ UNCHANGED chunks
                  [] outcome = "exception" ->
                       /\ threads' = [threads EXCEPT ![t].pc = "failed"]
                       /\ UNCHANGED chunks
    /\ UNCHANGED <<conv, objects, uploads, jobs, calls, faults, last, procs>>

\* lines 121-128: stitch_preliminary_transcript and conversation.save() write
\* the row loaded at the start
PreliminaryEnd(t) ==
    /\ threads[t].pc = "transcribing"
    /\ threads[t].chunks = <<>>
    /\ conv' = threads[t].conversation
    /\ threads' = [threads EXCEPT ![t].pc = "completed"]
    /\ UNCHANGED <<chunks, objects, uploads, jobs, calls, faults, last, procs>>

\* the owner's requests, each for the next chunk of the recording or for a chunk
\* sent before, and the preliminary transcription threads, run one after another
NextBatch ==
    \/ /\ calls < MaxBatchCalls
       /\ \E n \in {m \in BatchChunkNumbers : m <= Cardinality(chunks)}, f \in BOOLEAN, z \in SmallSizes, s \in StartTimes, d \in Durations :
             UploadChunk(Request("alice", n, s, d, f, z, "none", FALSE))
    \/ \E j \in 1..Len(jobs) : PreliminaryBegin(j)
    \/ \E t \in 1..Len(threads), o \in TranscriptionOutcomes : PreliminaryChunk(t, o)
    \/ \E t \in 1..Len(threads) : PreliminaryEnd(t)

SpecBatch == Init /\ [][NextBatch]_vars

\* ------------------------------------------------------------ concurrent requests
\* a worker takes a request
Begin(p) ==
    /\ calls < MaxConcCalls
    /\ procs[p].pc \in {"idle", "done"}
    /\ \E n \in ChunkNumbers, f \in BOOLEAN, z \in SmallSizes, s \in StartTimes, d \in Durations :
          procs' = [procs EXCEPT ![p] = Request("alice", n, s, d, f, z, "none", FALSE)]
    /\ calls' = calls + 1
    /\ UNCHANGED <<conv, chunks, objects, uploads, jobs, threads, faults, last>>

\* a worker runs the next database or S3 statement of its request
Proceed(p) ==
    /\ procs[p].pc \notin {"idle", "done"}
    /\ \E st \in {Step(World(procs[p]))} :
           /\ conv' = st.conv
           /\ chunks' = st.chunks
           /\ objects' = st.objects
           /\ uploads' = st.uploads
           /\ jobs' = st.jobs
           /\ procs' = [procs EXCEPT ![p] = st.l]
    /\ UNCHANGED <<threads, calls, faults, last>>

NextConc == \E p \in Procs : Begin(p) \/ Proceed(p)

SpecConc == Init /\ [][NextConc]_vars

\* the workers, and the finalize endpoint called meanwhile
NextConcFinalize ==
    \/ /\ calls < MaxFinalizeCalls
       /\ \E p \in Procs : Begin(p)
    \/ \E p \in Procs : Proceed(p)
    \/ /\ calls < MaxFinalizeCalls
       /\ FinalizeConversation("alice")

SpecConcFinalize == Init /\ [][NextConcFinalize]_vars

\* ------------------------------------------------------------ retention
\* POST /chunking/<id>/save/: mark_permanent() on the row of the owner
SavePermanently(user) ==
    /\ calls < MaxConcCalls
    /\ calls' = calls + 1
    /\ UNCHANGED <<chunks, objects, uploads, jobs, threads, faults, procs>>
    /\ IF ~conv.exists \/ conv.recorded_by # user
       THEN /\ last' = Answered(user, <<>>, 404, "Conversation not found", "")
            /\ UNCHANGED conv
       ELSE /\ conv' = [conv EXCEPT !.save_permanently = TRUE,
                                    !.scheduled_deletion_date = FALSE]
            /\ last' = Answered(user, <<>>, 200, "", "Conversation will not be auto-deleted")

\* manage.py cleanup_expired once the scheduled date has passed: the audio of
\* the conversation, its row and the chunk rows that hang on it are deleted
CleanupExpired ==
    /\ conv.exists /\ conv.scheduled_deletion_date /\ ~conv.save_permanently
    /\ LET gone == {ChunkKey(conv.recorded_by, n) : n \in ChunkNumbers} \cup {conv.final_audio_url}
       IN  objects' = [k \in DOMAIN objects \ gone |-> objects[k]]
    /\ conv' = NoConversation
    /\ chunks' = {}
    /\ UNCHANGED <<uploads, jobs, threads, calls, faults, last, procs>>

\* one worker, the save endpoint called between its steps, and the cleanup command
NextRetention ==
    \/ Begin(1)
    \/ Proceed(1)
    \/ SavePermanently("alice")
    \/ CleanupExpired

SpecRetention == Init /\ [][NextRetention]_vars

\* ------------------------------------------------------------ properties
Received(c) == Range(c.received_chunks)

StoredNumbers(cs) == {c.chunk_number : c \in cs}

\* a request was served from start to end in this step
Served == calls' = calls + 1

Ops(l) == {l.s3calls[i].op : i \in 1..Len(l.s3calls)}

Succeeded(l) == l.response.status = 200

Contiguous(S) == \A n \in S : \A m \in 0..n : m \in S

\* the bytes the chunk rows of the conversation point at
ActualTotalBytes ==
    LET rows == OrderByChunkNumber(chunks)
    IN  ContentLength(Concatenation(objects, [i \in 1..Len(rows) |-> rows[i].s3_chunk_url]))

RetroactiveUpload == uploads[Len(uploads)]

\* C1: delivering an index that is already in received_chunks again succeeds with
\* the unchanged count, makes no chunk PUT and no part copy, and leaves
\* received_chunks, the chunk rows and the part list as they were (index 0 included).
C1_IdempotentIngest ==
    [][(Served /\ last'.chunk_number \in Received(conv)) =>
          /\ Succeeded(last')
          /\ last'.response.total_received = Len(conv.received_chunks)
          /\ Ops(last') \cap {"put_object", "upload_part_copy"} = {}
          /\ conv'.received_chunks = conv.received_chunks
          /\ chunks' = chunks
          /\ conv'.multipart_parts = conv.multipart_parts]_vars

\* C3: a final chunk delivered while the received indices (that chunk included)
\* are not 0..max does not succeed, runs no reassembly strategy, and leaves
\* is_final_uploaded and is_chunks_complete false.
C3_GapDetection ==
    [][(/\ Served
        /\ last'.is_final_chunk
        /\ ~conv.is_final_uploaded /\ ~conv.is_chunks_complete
        /\ ~Contiguous(Received(conv) \cup {last'.chunk_number})) =>
          /\ ~Succeeded(last')
          /\ last'.strategy = ""
          /\ ~conv'.is_final_uploaded
          /\ ~conv'.is_chunks_complete]_vars

\* C4: when a strategy is selected, it is the multipart one exactly when the
\* bytes of the persisted chunks sum to SIZE_THRESHOLD or more.
C4_StrategySelection ==
    last.strategy # "" => (last.strategy = "multipart" <=> ActualTotalBytes >= SIZE_THRESHOLD)

\* C5: a chunk with index other than 0 delivered to a session with no chunk and
\* no multipart upload is refused for its sequence, with no S3 call at all, and
\* received_chunks stays empty.
C5_Sequencing ==
    [][(/\ Served
        /\ last'.chunk_number # 0
        /\ chunks = {} /\ conv.received_chunks = <<>> /\ conv.multipart_upload_id = 0) =>
          /\ last'.response.status = 400
          /\ last'.response.error = "No multipart upload - chunk 0 must be sent first"
          /\ last'.s3calls = <<>>
          /\ chunks' = {}
          /\ conv'.received_chunks = <<>>]_vars

C5_Witness ==
    /\ last.pc = "done" /\ last.chunk_number # 0
    /\ last.response.status = 400
    /\ conv.exists /\ conv.received_chunks = <<>> /\ conv.multipart_upload_id = 0

\* C6: after a request that failed in the chunk PUT or the part copy, the
\* multipart upload is aborted and the row carries no multipart upload id.
C6_AbortCleanliness ==
    last.response.error = "Failed to upload chunk" =>
        /\ conv.multipart_upload_id = 0
        /\ \A id \in 1..Len(uploads) : uploads[id].status # "open"

C8_Ownership ==
    [][(Served /\ conv.exists /\ last'.user # conv.recorded_by) =>
          /\ ~Succeeded(last')
          /\ Ops(last') \cap {"put_object", "upload_part_copy"} = {}
          /\ conv' = conv
          /\ chunks' = chunks
          /\ objects' = objects]_vars

FinalObjects(objs) == [k \in {key \in DOMAIN objs : key[1] = "conversations"} |-> objs[k]]

\* C10: once the session is finalized, a further delivery marked final runs no
\* reassembly strategy again and writes no final object.
C10_FinalizationOnce ==
    [][(Served /\ conv.is_final_uploaded /\ last'.is_final_chunk) =>
          /\ last'.strategy = ""
          /\ FinalObjects(objects') = FinalObjects(objects)
          /\ conv'.final_audio_url = conv.final_audio_url]_vars

\* the request took its chunk for a new one and stored it
Accepted(l) == l.pc = "done" /\ Succeeded(l) /\ l.response.message # "Already received"

\* the request ended in an exception no handler catches
Crashed(l) == l.pc = "done" /\ l.response.error = "IntegrityError"

PartEntries(c, n) == {i \in 1..Len(c.multipart_parts) : c.multipart_parts[i].part_number = n}

ReceivedEntries(c, n) == {i \in 1..Len(c.received_chunks) : c.received_chunks[i] = n}

\* C2: after two requests with different new indices have both succeeded, in
\* whatever interleaving, both indices are in received_chunks, both have their
\* part in multipart_parts, and chunk_count is the number of chunk rows.
C2_NoLostUpdate ==
    (/\ Accepted(procs[1]) /\ Accepted(procs[2])
     /\ procs[1].chunk_number # procs[2].chunk_number) =>
        /\ \A p \in Procs : procs[p].chunk_number \in Received(conv)
        /\ \A p \in Procs : PartEntries(conv, procs[p].chunk_number + 1) # {}
        /\ conv.chunk_count = Cardinality(chunks)

\* C9: two requests that both took the same index for a new chunk end without an
\* unhandled error, with one chunk row, one entry for part index+1 and the index
\* once in received_chunks.
C9_ConcurrentDuplicate ==
    (/\ \A p \in Procs : Accepted(procs[p]) \/ Crashed(procs[p])
     /\ procs[1].chunk_number = procs[2].chunk_number) =>
        LET n == procs[1].chunk_number
        IN  /\ \A p \in Procs : ~Crashed(procs[p])
            /\ Cardinality({c \in chunks : c.chunk_number = n}) = 1
            /\ Cardinality(PartEntries(conv, n + 1)) = 1
            /\ Cardinality(ReceivedEntries(conv, n)) = 1

\* the request before this one failed in the reassembly of its final chunk
ReassemblyJustFailed == last.is_final_chunk /\ last.response.error = "Failed to create complete file"

\* C12: when the reassembly of a final chunk has failed, delivering that final
\* chunk again to a storage that works finalizes the session.
C12_FinalizationRetriable ==
    [][(/\ Served
        /\ ReassemblyJustFailed
        /\ ~conv.is_final_uploaded
        /\ Contiguous(Received(conv))
        /\ last'.user = last.user
        /\ last'.chunk_number = last.chunk_number
        /\ last'.is_final_chunk
        /\ faults' = faults) =>
          /\ conv'.is_final_uploaded
          /\ conv'.is_chunks_complete]_vars

\* the urls of the chunk rows, by chunk number
ChunkUrls == LET rows == OrderByChunkNumber(chunks)
             IN  [i \in 1..Len(rows) |-> rows[i].s3_chunk_url]

RECURSIVE PartsContent(_, _)
\* the parts of the retroactive upload, one after the other
PartsContent(objs, batches) ==
    IF batches = <<>> THEN <<>>
    ELSE LET batch == Head(batches)
         IN  Concatenation(objs, [i \in 1..Len(batch) |-> batch[i].key])
                 \o PartsContent(objs, Tail(batches))

\* what build_multipart_from_chunks completes for the chunk rows
MultipartContent ==
    LET chunk_info == [i \in 1..Len(ChunkUrls) |->
                          [key |-> ChunkUrls[i], size |-> ContentLength(objects[ChunkUrls[i]])]]
    IN  PartsContent(objects, BatchChunks(chunk_info, 1, <<>>, <<>>))

\* what concatenate_and_upload_small_conversation puts for the chunk rows
ConcatenatedContent == Concatenation(objects, ChunkUrls)

Finalized(l) == l.pc = "done" /\ Succeeded(l) /\ l.response.message = "Complete"

\* C13: after a successful finalization the final object is the chunk objects
\* of the session, each once, in ascending index order, whatever order they
\* arrived in; the concatenation and the retroactive multipart upload give the
\* same object for the chunks of the session.
C13_FinalObjectContent ==
    Finalized(last) =>
        LET final == objects[conv.final_audio_url]
        IN  /\ Len(final) = Cardinality(chunks)
            /\ \A i, j \in 1..Len(final) : i < j => final[i].chunk < final[j].chunk
            /\ \A i \in 1..Len(final) :
                  \E c \in chunks : /\ c.chunk_number = final[i].chunk
                                    /\ objects[c.s3_chunk_url] = <<final[i]>>
            /\ ConcatenatedContent = MultipartContent
            /\ final = ConcatenatedContent

C13_Witness ==
    /\ Finalized(last)
    /\ last.strategy = "concatenate"
    /\ Cardinality(chunks) = MaxChunkNumber + 1
    /\ \E c \in chunks : c.chunk_number > last.chunk_number
    /\ \E c \in chunks : ContentLength(objects[c.s3_chunk_url]) > ESTIMATED_CHUNK_BYTES

OptimisticUploads(ups) == {id \in 1..Len(ups) : ups[id].opened_by = "start_multipart_upload"}

\* C15: once a multipart upload is recorded on the session, no ingest request
\* opens another optimistic upload, replaces the recorded upload id or resets
\* the recorded parts.
C15_SingleOptimisticUpload ==
    [][(Served /\ conv.multipart_upload_id # 0) =>
          /\ OptimisticUploads(uploads') = OptimisticUploads(uploads)
          /\ conv'.multipart_upload_id = conv.multipart_upload_id
          /\ Len(conv'.multipart_parts) >= Len(conv.multipart_parts)]_vars

\* C16: while the session is not finalized it has no final object key, and a
\* final object key that is set does not change.
C16_FinalKeySetOnce ==
    /\ [](~conv.is_final_uploaded => conv.final_audio_url = NoKey)
    /\ [][conv.final_audio_url # NoKey => conv'.final_audio_url = conv.final_audio_url]_vars

\* C17: is_chunks_complete and is_final_uploaded, once true in the row, are
\* true after every step of every request.
C17_MonotonicFlags ==
    [][/\ conv.is_chunks_complete => conv'.is_chunks_complete
       /\ conv.is_final_uploaded => conv'.is_final_uploaded]_vars

\* the request before this one failed in its upload and the session's
\* multipart upload is aborted
UploadJustAborted ==
    /\ last.response.error = "Failed to upload chunk"
    /\ conv.multipart_upload_id \in 1..Len(uploads)
    /\ uploads[conv.multipart_upload_id].status = "aborted"

\* C19: after a request failed in its upload and the multipart upload of the
\* session was aborted, a further request for the session is not accepted:
\* received_chunks and the parts do not grow and the session is not finalized.
C19_AbortedIsTerminal ==
    [][(Served /\ UploadJustAborted) =>
          /\ ~Accepted(last')
          /\ Len(conv'.received_chunks) <= Len(conv.received_chunks)
          /\ Len(conv'.multipart_parts) <= Len(conv.multipart_parts)
          /\ ~conv'.is_final_uploaded]_vars

\* C20: total_duration_seconds never decreases, in whatever order the chunks
\* are accepted.
C20_DurationHighWater ==
    [][conv'.total_duration_seconds >= conv.total_duration_seconds]_vars

\* C18: a recording of exactly one chunk, index 0 delivered as the final chunk,
\* is reassembled by concatenation, whatever the size of the chunk.
C18_SingleChunkConcatenates ==
    (/\ last.pc = "done" /\ last.chunk_number = 0 /\ last.is_final_chunk
     /\ last.strategy # ""
     /\ StoredNumbers(chunks) = {0}) =>
        last.strategy = "concatenate"

\* a worker ends the reassembly of its final chunk in this step
IngestFinalizes == \E p \in Procs : procs[p].pc = "save_final" /\ procs'[p].pc = "done"

\* C11: is_final_uploaded goes from false to true only in the last step of a
\* successful reassembly inside upload_chunk, and only when the session was
\* never finalized before; the finalize endpoint does not make that change.
C11_FinalUploadedOnce ==
    [][(~conv.is_final_uploaded /\ conv'.is_final_uploaded) =>
          /\ IngestFinalizes
          /\ FinalJobs(jobs) = {}]_vars

\* a final transcription thread ends in failure in this step
TranscriptionFails ==
    \/ \E t \in 1..Len(threads) : threads[t].pc = "transcribing" /\ threads'[t].pc = "failed"
    \/ Len(threads') > Len(threads) /\ threads'[Len(threads')].pc = "failed"

\* C14: a failing final transcription leaves is_final_uploaded,
\* is_chunks_complete, final_audio_url and received_chunks as they are, and
\* does not touch the response of the request that started it.
C14_TranscriptionFailureFrame ==
    [][TranscriptionFails =>
          /\ conv'.is_final_uploaded = conv.is_final_uploaded
          /\ conv'.is_chunks_complete = conv.is_chunks_complete
          /\ conv'.final_audio_url = conv.final_audio_url
          /\ conv'.received_chunks = conv.received_chunks
          /\ last' = last]_vars

PartNumbers(c) == [i \in 1..Len(c.multipart_parts) |-> c.multipart_parts[i].part_number]

\* C21: the recorded parts are in strictly increasing part number, and the part
\* numbers are the received indices plus one; a finalized session has the part
\* numbers 1..n without a gap.
C21_PartsInvariant ==
    LET numbers == PartNumbers(conv)
    IN  /\ \A i, j \in 1..Len(numbers) : i < j => numbers[i] < numbers[j]
        /\ Range(numbers) = {n + 1 : n \in Received(conv)}
        /\ conv.is_final_uploaded => Range(numbers) = 1..Len(numbers)

\* C22: a session whose received_chunks holds an index other than 0 has a
\* multipart upload id, and a request with an index other than 0 for a session
\* without multipart upload id is not accepted and adds nothing to received_chunks.
C22_MultipartIdBeforeChunks ==
    /\ []((\E n \in Received(conv) : n # 0) => conv.multipart_upload_id # 0)
    /\ [][(Served /\ last'.chunk_number # 0 /\ conv.multipart_upload_id = 0) =>
             /\ ~Accepted(last')
             /\ conv'.received_chunks = conv.received_chunks
             /\ chunks' = chunks]_vars

C22_Witness ==
    /\ Accepted(last) /\ last.chunk_number # 0
    /\ last.chunk_number \in Received(conv)
    /\ conv.multipart_upload_id # 0

\* C25: between requests, every multipart upload that is open is the one whose
\* id is recorded on the session, and a finalized session has no open upload.
C25_NoStrandedUpload ==
    \A id \in 1..Len(uploads) :
        uploads[id].status = "open" =>
            /\ id = conv.multipart_upload_id
            /\ ~conv.is_final_uploaded

\* C26: a request with an index other than 0 for a session id that has no row
\* creates no row.
C26_SessionCreatedByChunkZero ==
    [][(Served /\ ~conv.exists /\ last'.chunk_number # 0) => ~conv'.exists]_vars

\* the S3 operations of a request, in the order they were called
OpSeq(l) == [i \in 1..Len(l.s3calls) |-> l.s3calls[i].op]

\* where an operation of S is called first / last in a sequence of operations, 0 if never
FirstCall(ops, S) ==
    IF \E i \in 1..Len(ops) : ops[i] \in S
    THEN CHOOSE i \in 1..Len(ops) : ops[i] \in S /\ \A j \in 1..(i - 1) : ops[j] \notin S
    ELSE 0

LastCall(ops, S) ==
    IF \E i \in 1..Len(ops) : ops[i] \in S
    THEN CHOOSE i \in 1..Len(ops) : ops[i] \in S /\ \A j \in (i + 1)..Len(ops) : ops[j] \notin S
    ELSE 0

\* the request chose a strategy and did not finalize
StrategyFailed(l) == l.pc = "done" /\ l.strategy # "" /\ ~Finalized(l)

\* the request opened an upload in build_multipart_from_chunks
OpenedRetroactive(before, after) ==
    /\ Len(after) > Len(before)
    /\ after[Len(after)].opened_by = "build_multipart_from_chunks"

\* C23: when the chosen strategy fails, the request is answered with an error,
\* is_final_uploaded and is_chunks_complete stay false, and an abort is the last
\* thing asked of S3 for the upload that build_multipart_from_chunks opened.
C23_ReassemblyFailure ==
    [][(/\ Served
        /\ ~conv.is_final_uploaded /\ ~conv.is_chunks_complete
        /\ StrategyFailed(last')) =>
          /\ last'.response.status = 500
          /\ ~conv'.is_final_uploaded
          /\ ~conv'.is_chunks_complete
          /\ OpenedRetroactive(uploads, uploads') =>
                LastCall(OpSeq(last'), {"abort_multipart_upload"}) = Len(last'.s3calls)]_vars

CompleteCalled(l) ==
    l.pc = "done" /\ l.strategy = "multipart" /\ "complete_multipart_upload" \in Ops(l)

\* C28: a part of the retroactive upload made of two or more chunks, which is
\* downloaded and uploaded again by the server, is at most MIN_PART_SIZE long.
C28_DataMovementBound ==
    CompleteCalled(last) =>
        \A n \in DOMAIN RetroactiveUpload.parts :
            Len(RetroactiveUpload.parts[n]) >= 2 =>
                ContentLength(RetroactiveUpload.parts[n]) <= MIN_PART_SIZE

RECURSIVE CallsForParts(_, _)
\* one upload_part_copy for a part of one chunk; one get_object per chunk and
\* one upload_part for a part of several chunks
CallsForParts(parts, n) ==
    IF n \notin DOMAIN parts THEN <<>>
    ELSE (IF Len(parts[n]) = 1
          THEN <<"upload_part_copy">>
          ELSE [i \in 1..Len(parts[n]) |-> "get_object"] \o <<"upload_part">>)
         \o CallsForParts(parts, n + 1)

ExpectedBatches ==
    BatchChunks([i \in 1..Len(ChunkUrls) |->
                    [key |-> ChunkUrls[i], size |-> ContentLength(objects[ChunkUrls[i]])]],
                1, <<>>, <<>>)

\* C30: the list given to complete_multipart_upload has the part numbers 1..k
\* in that order, k the number of batches, each with the ETag of its part, and
\* complete_multipart_upload is called after the k parts were uploaded.
C30_ManifestOrdered ==
    CompleteCalled(last) =>
        LET manifest == RetroactiveUpload.manifest
            k == Len(ExpectedBatches)
            ops == OpSeq(last)
            create == LastCall(ops, {"create_multipart_upload"})
            complete == LastCall(ops, {"complete_multipart_upload"})
        IN  /\ [i \in 1..Len(manifest) |-> manifest[i].PartNumber] = [i \in 1..k |-> i]
            /\ RetroactiveUpload.status = "completed" =>
                  /\ DOMAIN RetroactiveUpload.parts = 1..k
                  /\ \A i \in 1..k : manifest[i].ETag = RetroactiveUpload.parts[i]
            /\ Cardinality({i \in (create + 1)..(complete - 1) :
                               ops[i] \in {"upload_part_copy", "upload_part"}}) = k
            /\ LastCall(ops, {"upload_part_copy", "upload_part"}) < complete

C30_Witness ==
    /\ CompleteCalled(last)
    /\ Len(RetroactiveUpload.manifest) = MaxChunkNumber + 1
    /\ RetroactiveUpload.status = "completed"

\* the chunk numbers of the rows with no transcript
Untranscribed(cs) == {c.chunk_number : c \in {c \in cs : c.transcript_text = ""}}

\* the k lowest numbers of S
Lowest(S, k) == {n \in S : Cardinality({m \in S : m < n}) < k}

\* C27: after a non-final new chunk is accepted, a preliminary job is started
\* if and only if at least PRELIMINARY_TRANSCRIPTION_BATCH_SIZE chunk rows have
\* no transcript, for the lowest-numbered of them; the response says
\* is_complete false; no step of a job changes a response; and a request with
\* the final flag starts no preliminary job.
C27_PreliminaryDispatch ==
    /\ [][(Served /\ Accepted(last') /\ ~last'.is_final_chunk) =>
             /\ last'.response.is_complete = FALSE
             /\ last'.response.message = "Uploaded"
             /\ IF Cardinality(Untranscribed(chunks')) >= PRELIMINARY_TRANSCRIPTION_BATCH_SIZE
                THEN /\ Len(jobs') = Len(jobs) + 1
                     /\ SubSeq(jobs', 1, Len(jobs)) = jobs
                     /\ LET job == jobs'[Len(jobs')]
                        IN  /\ job.kind = "preliminary"
                            /\ Len(job.chunk_ids) = PRELIMINARY_TRANSCRIPTION_BATCH_SIZE
                            /\ Range(job.chunk_ids) =
                                   Lowest(Untranscribed(chunks'), PRELIMINARY_TRANSCRIPTION_BATCH_SIZE)
                            /\ \A i \in 1..(Len(job.chunk_ids) - 1) :
                                   job.chunk_ids[i] < job.chunk_ids[i + 1]
                ELSE jobs' = jobs]_vars
    /\ [][(Served /\ last'.is_final_chunk) => PreliminaryJobs(jobs') = PreliminaryJobs(jobs)]_vars
    /\ [][~Served => last' = last]_vars

\* a fifth chunk is accepted after a job has transcribed some of the first four,
\* and a job is started for the lowest four chunks left without transcript
C27_Witness ==
    /\ Accepted(last) /\ ~last.is_final_chunk
    /\ Cardinality(PreliminaryJobs(jobs)) >= 2
    /\ \E c \in chunks : c.transcript_text # "" /\ c.chunk_number < jobs[Len(jobs)].chunk_ids[1]
    /\ Range(jobs[Len(jobs)].chunk_ids) =
           Lowest(Untranscribed(chunks), PRELIMINARY_TRANSCRIPTION_BATCH_SIZE)

\* a final transcription job is started in this step
FinalJobStarted == Cardinality(FinalJobs(jobs')) > Cardinality(FinalJobs(jobs))

\* C31: a final transcription job is started only when a reassembly has made
\* the final object and is_final_uploaded, is_chunks_complete and
\* final_audio_url are saved; a request whose reassembly failed starts none.
C31_HandOffAfterSave ==
    /\ [][FinalJobStarted =>
             /\ conv'.is_final_uploaded
             /\ conv'.is_chunks_complete
             /\ conv'.final_audio_url # NoKey
             /\ conv'.final_audio_url \in DOMAIN objects']_vars
    /\ [][(Served /\ StrategyFailed(last')) => jobs' = jobs]_vars

\* C32: a request answered 'Failed to upload chunk' leaves received_chunks,
\* multipart_parts, chunk_count, total_duration_seconds and the chunk rows as
\* they were before it.
C32_FailedUploadFrame ==
    [][(Served /\ last'.response.error = "Failed to upload chunk") =>
          /\ conv'.received_chunks = conv.received_chunks
          /\ conv'.multipart_parts = conv.multipart_parts
          /\ conv'.chunk_count = conv.chunk_count
          /\ conv'.total_duration_seconds = conv.total_duration_seconds
          /\ chunks' = chunks]_vars

C34_ReceivedMatchesRows ==
    /\ \A i \in 1..(Len(conv.received_chunks) - 1) :
          conv.received_chunks[i] < conv.received_chunks[i + 1]
    /\ Received(conv) = StoredNumbers(chunks)
    /\ conv.chunk_count = Len(conv.received_chunks)

\* the request was refused because the multipart upload could not be opened
StartFailed(l) == l.pc = "done" /\ l.response.error = "Failed to start multipart upload"

\* C35: when create_multipart_upload fails for chunk 0 the request is answered
\* with an error, records no multipart upload id, writes no object and leaves
\* received_chunks and the chunk rows alone; when the same user then sends
\* chunk 0 to a storage that works, a new upload is opened and recorded and
\* the chunk is received.
C35_FailedStartRetriable ==
    /\ [][(Served /\ StartFailed(last')) =>
             /\ last'.chunk_number = 0
             /\ last'.response.status = 500
             /\ conv'.multipart_upload_id = conv.multipart_upload_id
             /\ uploads' = uploads
             /\ objects' = objects
             /\ "put_object" \notin Ops(last')
             /\ conv'.received_chunks = conv.received_chunks
             /\ chunks' = chunks]_vars
    /\ [][(/\ StartFailed(last) /\ Served
           /\ last'.chunk_number = 0 /\ last'.user = last.user
           /\ faults' = faults) =>
             /\ Succeeded(last')
             /\ Len(uploads') > Len(uploads)
             /\ conv'.multipart_upload_id = Len(uploads) + 1
             /\ uploads'[Len(uploads) + 1].opened_by = "start_multipart_upload"
             /\ 0 \in Received(conv')
             /\ 0 \in StoredNumbers(chunks')]_vars

\* chunk 0 of a new session was refused because the upload could not be opened
C35_Witness ==
    /\ StartFailed(last)
    /\ conv.exists /\ conv.multipart_upload_id = 0 /\ conv.received_chunks = <<>>
    /\ uploads = <<>>

\* C36: once save_permanently is stored for the conversation, the row stays,
\* stays permanent and has no scheduled deletion date, whatever a request for
\* a final chunk that is in flight saves.
C36_PermanentStays ==
    [][(conv.exists /\ conv.save_permanently) =>
          /\ conv'.exists
          /\ conv'.save_permanently
          /\ ~conv'.scheduled_deletion_date]_vars

====
